---- MODULE Spec2Model ----
(***************************************************************************)
(* A model of the argparser library: the Argument value holder             *)
(* (Argument.hpp / Argument.cpp) and the ArgParser registry and            *)
(* dispatcher (ArgParser.hpp / ArgParser.cpp).                             *)
(*                                                                         *)
(* A std::string is a sequence of one-character strings; positions of      *)
(* the C++ string operations are 0-based as in the source.                 *)
(***************************************************************************)
EXTENDS Integers, Sequences, FiniteSets, TLC

\* ------------------------------------------------------------------ bounds

\* Most declarations made on one registry (RegistrySpec).
MaxDecls == 3

\* Longest command line of a call that follows another (ReparseSpec), and
\* the most positional values kept from earlier calls when one starts.
MaxCallLen == 1
MaxKept == 2

\* Longest command line handed to parsePositionalOption.
MaxArgs == 3

\* Longest string over Chars a stand-alone Argument is given.
MaxStrLen == 2

\* ----------------------------------------------------------- std::string

npos == -1

Min(a, b) == IF a < b THEN a ELSE b

\* s.substr(pos): the characters from 0-based position pos to the end.
substrFrom(s, pos) == SubSeq(s, pos + 1, Len(s))

\* s.substr(pos, n): at most n characters from 0-based position pos.
substr(s, pos, n) == SubSeq(s, pos + 1, Min(pos + n, Len(s)))

\* s.starts_with(prefix)
starts_with(s, prefix) ==
    /\ Len(s) >= Len(prefix)
    /\ SubSeq(s, 1, Len(prefix)) = prefix

\* s.find(c): 0-based position of the first c, or npos.
find(s, c) ==
    IF \E i \in 1..Len(s) : s[i] = c
    THEN (CHOOSE i \in 1..Len(s) : s[i] = c /\ \A j \in 1..(i - 1) : s[j] # c) - 1
    ELSE npos

Digits == {"0", "1", "2", "3", "4", "5", "6", "7", "8", "9"}

DigitVal(c) ==
    CASE c = "0" -> 0 [] c = "1" -> 1 [] c = "2" -> 2 [] c = "3" -> 3
      [] c = "4" -> 4 [] c = "5" -> 5 [] c = "6" -> 6 [] c = "7" -> 7
      [] c = "8" -> 8 [] c = "9" -> 9

\* std::tolower on one character (the letters the model's strings use).
tolower(c) ==
    CASE c = "O" -> "o" [] c = "N" -> "n" [] c = "Y" -> "y" [] c = "E" -> "e"
      [] c = "S" -> "s" [] c = "T" -> "t" [] c = "R" -> "r" [] c = "U" -> "u"
      [] OTHER -> c

\* std::transform(..., tolower) over a whole string.
lowerString(s) == [i \in 1..Len(s) |-> tolower(s[i])]

\* The range of int.
INT_MAX == 2147483647

\* Number of leading characters of s, from 1-based index i, that satisfy
\* membership in the set cs.
RECURSIVE spanLen(_, _, _)
spanLen(s, i, cs) ==
    IF i <= Len(s) /\ s[i] \in cs THEN 1 + spanLen(s, i + 1, cs) ELSE 0

\* Value of the digit string ds read left to right from acc.  Values up to
\* INT_MAX are themselves; TooBigByOne is INT_MAX + 1 (the magnitude of
\* INT_MIN) and TooBig anything larger.
TooBigByOne == -1
TooBig == -2

RECURSIVE digitsValue(_, _)
digitsValue(ds, acc) ==
    IF ds = <<>> THEN acc
    ELSE LET d == DigitVal(Head(ds))
             nxt == IF acc < 0 THEN TooBig
                    ELSE IF acc <= (INT_MAX - d) \div 10 THEN acc * 10 + d
                    ELSE IF acc = INT_MAX \div 10 /\ d = (INT_MAX % 10) + 1
                         THEN TooBigByOne
                         ELSE TooBig
         IN  digitsValue(Tail(ds), nxt)

\* std::stoi(s): skip leading white space, take an optional sign, then the
\* longest run of decimal digits; characters after the run are ignored.
\* No digit: std::invalid_argument.  Out of the range of int:
\* std::out_of_range.  Either is reported as ok = FALSE.
stoi(s) ==
    LET ws   == spanLen(s, 1, {" "})
        sgn  == IF ws + 1 <= Len(s) /\ s[ws + 1] \in {"+", "-"} THEN 1 ELSE 0
        neg  == sgn = 1 /\ s[ws + 1] = "-"
        nd   == spanLen(s, ws + sgn + 1, Digits)
        mag  == digitsValue(SubSeq(s, ws + sgn + 1, ws + sgn + nd), 0)
    IN  IF nd = 0 THEN [ok |-> FALSE, val |-> 0]
        ELSE IF mag = TooBig THEN [ok |-> FALSE, val |-> 0]
        ELSE IF mag = TooBigByOne
             THEN IF neg THEN [ok |-> TRUE, val |-> (0 - INT_MAX) - 1]
                  ELSE [ok |-> FALSE, val |-> 0]
             ELSE [ok |-> TRUE, val |-> IF neg THEN 0 - mag ELSE mag]

RECURSIVE stripLeadingZeros(_)
stripLeadingZeros(ds) ==
    IF ds # <<>> /\ Head(ds) = "0" THEN stripLeadingZeros(Tail(ds)) ELSE ds

RECURSIVE stripTrailingZeros(_)
stripTrailingZeros(ds) ==
    IF ds # <<>> /\ ds[Len(ds)] = "0"
    THEN stripTrailingZeros(SubSeq(ds, 1, Len(ds) - 1)) ELSE ds

\* A decimal value: sign, integer digits without leading zeros, fraction
\* digits without trailing zeros.  Zero has no sign.
decimal(neg, intDigits, fracDigits) ==
    LET i == stripLeadingZeros(intDigits)
        f == stripTrailingZeros(fracDigits)
    IN  << neg /\ (i # <<>> \/ f # <<>>), i, f >>

ZeroDouble == << FALSE, <<>>, <<>> >>

\* std::stod(s) on strings of white space, sign, digits and '.': skip
\* leading white space, take an optional sign, digits, an optional '.' and
\* more digits; at least one digit is needed, characters after the number
\* are ignored.  No digit: std::invalid_argument (ok = FALSE).
stod(s) ==
    LET ws   == spanLen(s, 1, {" "})
        sgn  == IF ws + 1 <= Len(s) /\ s[ws + 1] \in {"+", "-"} THEN 1 ELSE 0
        neg  == sgn = 1 /\ s[ws + 1] = "-"
        b    == ws + sgn
        ni   == spanLen(s, b + 1, Digits)
        dot  == IF b + ni + 1 <= Len(s) /\ s[b + ni + 1] = "." THEN 1 ELSE 0
        nf   == IF dot = 1 THEN spanLen(s, b + ni + 2, Digits) ELSE 0
    IN  IF ni + nf = 0 THEN [ok |-> FALSE, val |-> ZeroDouble]
        ELSE [ok |-> TRUE,
              val |-> decimal(neg, SubSeq(s, b + 1, b + ni),
                              SubSeq(s, b + ni + 2, b + ni + 1 + nf))]

\* ------------------------------------------------------------- Argument

Flag == "Flag"
Option == "Option"
Positional == "Positional"

\* The validators an application attaches.  "none" is the empty
\* std::function; "isPort" is the port validator of the advanced example.
PortLimit == 65536

callValidator(f, value) ==
    CASE f = "isPort" ->
            LET port == stoi(value)
            IN  port.ok /\ port.val > 0 /\ port.val < PortLimit
      [] OTHER -> TRUE

\* Argument(shortName, longName, description): a flag.
FlagArgument(shortName, longName) ==
    [m_shortName |-> shortName, m_longName |-> longName, m_name |-> <<>>,
     m_defaultValue |-> <<>>, m_currentValue |-> <<>>, m_type |-> Flag,
     m_isRequired |-> FALSE, m_isSet |-> FALSE, m_validator |-> "none"]

\* Argument(shortName, longName, description, defaultValue): an option.
OptionArgument(shortName, longName, defaultValue) ==
    [m_shortName |-> shortName, m_longName |-> longName, m_name |-> <<>>,
     m_defaultValue |-> defaultValue, m_currentValue |-> <<>>, m_type |-> Option,
     m_isRequired |-> FALSE, m_isSet |-> FALSE, m_validator |-> "none"]

\* Argument(name, description, required): a positional.
PositionalArgument(name, isRequired) ==
    [m_shortName |-> <<>>, m_longName |-> <<>>, m_name |-> name,
     m_defaultValue |-> <<>>, m_currentValue |-> <<>>, m_type |-> Positional,
     m_isRequired |-> isRequired, m_isSet |-> FALSE, m_validator |-> "none"]

DigitChar(k) == <<"0", "1", "2", "3", "4", "5", "6", "7", "8", "9">>[k + 1]

\* The decimal digits of n <= 0 taken as a magnitude (the magnitude of
\* INT_MIN is no int).
RECURSIVE magnitudeDigits(_)
magnitudeDigits(n) ==
    IF n > -10 THEN <<DigitChar(0 - n)>>
    ELSE LET q == (n + 9) \div 10
         IN  magnitudeDigits(q) \o <<DigitChar(10 * q - n)>>

\* std::to_string(int)
to_string(n) ==
    IF n < 0 THEN <<"-">> \o magnitudeDigits(n) ELSE magnitudeDigits(0 - n)

\* Argument::defaultValue(T) for T = int.
defaultValueInt(a, n) == [a EXCEPT !.m_defaultValue = to_string(n)]

required(a, isRequired) == [a EXCEPT !.m_isRequired = isRequired]

defaultValue(a, value) == [a EXCEPT !.m_defaultValue = value]

validator(a, func) == [a EXCEPT !.m_validator = func]

\* setValue with the store ahead of the validator call: a refused value
\* stays in the Argument.
setValue_storeThenValidate(a, value) ==
    IF a.m_type = Flag
    THEN [thrown |-> "ValidationError", arg |-> a]
    ELSE LET b == [a EXCEPT !.m_currentValue = value, !.m_isSet = TRUE]
         IN  IF a.m_validator # "none" /\ ~callValidator(a.m_validator, value)
             THEN [thrown |-> "ValidationError", arg |-> b]
             ELSE [thrown |-> "", arg |-> b]

\* Argument::setValue.  thrown is "" when the call returns, else the
\* exception; arg is the Argument as the call leaves it.
setValue(a, value) ==
    IF a.m_type = Flag
    THEN [thrown |-> "ValidationError", arg |-> a]
    ELSE IF a.m_validator # "none" /\ ~callValidator(a.m_validator, value)
         THEN [thrown |-> "ValidationError", arg |-> a]
         ELSE [thrown |-> "",
               arg |-> [a EXCEPT !.m_currentValue = value, !.m_isSet = TRUE]]

\* Argument::setFlag.
setFlag(a, value) ==
    IF a.m_type # Flag
    THEN [thrown |-> "ValidationError", arg |-> a]
    ELSE [thrown |-> "", arg |-> [a EXCEPT !.m_isSet = value]]

\* get<T>() begins the same way for every T: no value when the Argument
\* is not set and has no default.
noValue(a) == ~a.m_isSet /\ a.m_defaultValue = <<>>

\* activeValue without the fall back to the default.
activeValue_currentOnly(a) == a.m_currentValue

\* The string get<T>() converts: the current value if set, else the default.
activeValue(a) == IF a.m_isSet THEN a.m_currentValue ELSE a.m_defaultValue

\* std::optional<T>: has = FALSE is std::nullopt.
get_string(a) ==
    IF noValue(a) THEN [has |-> FALSE, val |-> <<>>]
    ELSE [has |-> TRUE, val |-> activeValue(a)]

get_int(a) ==
    IF noValue(a) THEN [has |-> FALSE, val |-> 0]
    ELSE LET r == stoi(activeValue(a))
         IN  IF r.ok THEN [has |-> TRUE, val |-> r.val]
             ELSE [has |-> FALSE, val |-> 0]

get_double(a) ==
    IF noValue(a) THEN [has |-> FALSE, val |-> ZeroDouble]
    ELSE LET r == stod(activeValue(a))
         IN  IF r.ok THEN [has |-> TRUE, val |-> r.val]
             ELSE [has |-> FALSE, val |-> ZeroDouble]

TrueWords == { <<"t", "r", "u", "e">>, <<"1">>, <<"y", "e", "s">>, <<"o", "n">> }

get_bool(a) ==
    IF noValue(a) THEN [has |-> FALSE, val |-> FALSE]
    ELSE IF a.m_type = Flag THEN [has |-> TRUE, val |-> a.m_isSet]
    ELSE [has |-> TRUE, val |-> lowerString(activeValue(a)) \in TrueWords]

\* Argument::getString.
getString(a) ==
    LET result == get_string(a) IN IF result.has THEN result.val ELSE <<>>

\* getInt with value_or(0) in place of the throw.
getInt_valueOrZero(a) ==
    LET result == get_int(a)
    IN  [thrown |-> "", val |-> IF result.has THEN result.val ELSE 0]

\* Argument::getInt: thrown is "" and val the integer, or thrown names the
\* exception.
getInt(a) ==
    LET result == get_int(a)
    IN  IF ~result.has THEN [thrown |-> "ValidationError", val |-> 0]
        ELSE [thrown |-> "", val |-> result.val]

\* Argument::getDouble.
getDouble(a) ==
    LET result == get_double(a)
    IN  IF ~result.has THEN [thrown |-> "ValidationError", val |-> ZeroDouble]
        ELSE [thrown |-> "", val |-> result.val]

\* Argument::getBool.
getBool(a) ==
    LET result == get_bool(a) IN IF result.has THEN result.val ELSE FALSE

\* Argument::validate.
validate(a, value) == a.m_validator = "none" \/ callValidator(a.m_validator, value)


\* ------------------------------------------------------------ ArgParser
\* A parser is a record p: m_arguments (the owned Arguments in declaration
\* order), m_argMap (key -> index into m_arguments; an Argument* of the
\* source), m_positionalValues, and for a parsePositionalOption call in
\* progress: args, the cursor it (1-based; Len(args) + 1 is end), thrown
\* ("" while running, "exit" after std::exit(0), else the exception) and
\* what (the text the exception is constructed from).

nullptr == 0

\* The map entry written with insert, which keeps an entry already there.
mapPut_keepFirst(m, key, argPtr) ==
    [k \in (DOMAIN m) \cup {key} |-> IF k \in DOMAIN m THEN m[k] ELSE argPtr]

\* m_argMap[key] = argPtr
mapPut(m, key, argPtr) ==
    [k \in (DOMAIN m) \cup {key} |-> IF k = key THEN argPtr ELSE m[k]]

\* ArgParser::findArgument
findArgument(p, name) ==
    IF name \in DOMAIN p.m_argMap THEN p.m_argMap[name] ELSE nullptr

\* The indexing shared by addFlag and addOption: push_back, then one map
\* entry per non-empty name.
indexByNames(p, a, shortName, longName) ==
    LET argPtr == Len(p.m_arguments) + 1
        m1 == IF shortName # <<>> THEN mapPut(p.m_argMap, shortName, argPtr)
              ELSE p.m_argMap
        m2 == IF longName # <<>> THEN mapPut(m1, longName, argPtr) ELSE m1
    IN  [p EXCEPT !.m_arguments = Append(@, a), !.m_argMap = m2]

\* ArgParser::addFlag
addFlag(p, shortName, longName) ==
    indexByNames(p, FlagArgument(shortName, longName), shortName, longName)

\* ArgParser::addOption
addOption(p, shortName, longName, dflt) ==
    indexByNames(p, OptionArgument(shortName, longName, dflt), shortName, longName)

\* ArgParser::addPositional
addPositional(p, name, isRequired) ==
    LET argPtr == Len(p.m_arguments) + 1
    IN  [p EXCEPT !.m_arguments = Append(@, PositionalArgument(name, isRequired)),
                  !.m_argMap = mapPut(@, name, argPtr)]

throw(p, exception, text) == [p EXCEPT !.thrown = exception, !.what = text]

\* argument->setFlag(true); ++it;
callSetFlag(p, argument) ==
    LET r == setFlag(p.m_arguments[argument], TRUE)
        q == [p EXCEPT !.m_arguments[argument] = r.arg]
    IN  IF r.thrown # "" THEN throw(q, r.thrown, <<>>)
        ELSE [q EXCEPT !.it = @ + 1]

\* argument->setValue(value); ++it;  with the cursor where p has it.
callSetValue(p, argument, value) ==
    LET r == setValue(p.m_arguments[argument], value)
        q == [p EXCEPT !.m_arguments[argument] = r.arg]
    IN  IF r.thrown # "" THEN throw(q, r.thrown, value)
        ELSE [q EXCEPT !.it = @ + 1]

\* consumeNextAsValue without the first ++it: the option token itself is
\* stored as the value.
consumeNextAsValue_keepsCursor(p, argument, arg) ==
    IF p.it = Len(p.args) THEN throw([p EXCEPT !.it = @ + 1], "ParseError", arg)
    ELSE callSetValue(p, argument, p.args[p.it])

\* ++it; if (it == end) throw ParseError; argument->setValue(*it); ++it;
consumeNextAsValue(p, argument, arg) ==
    LET q == [p EXCEPT !.it = @ + 1]
    IN  IF q.it = Len(q.args) + 1 THEN throw(q, "ParseError", arg)
        ELSE callSetValue(q, argument, q.args[q.it])

\* parseShortOption with the attached value taken one character early.
parseShortOption_valueFromName(p) ==
    LET arg == p.args[p.it]
        shortName == substr(arg, 1, 1)
        argument == findArgument(p, shortName)
    IN  IF argument = nullptr THEN throw(p, "UnknownArgumentError", arg)
        ELSE IF p.m_arguments[argument].m_type = Flag
             THEN callSetFlag(p, argument)
             ELSE IF Len(arg) > 2
                  THEN callSetValue(p, argument, substrFrom(arg, 1))
                  ELSE consumeNextAsValue(p, argument, arg)

\* parseShortOption that steps over a name it does not know.
parseShortOption_skipUnknown(p) ==
    LET arg == p.args[p.it]
        shortName == substr(arg, 1, 1)
        argument == findArgument(p, shortName)
    IN  IF argument = nullptr THEN [p EXCEPT !.it = @ + 1]
        ELSE IF p.m_arguments[argument].m_type = Flag
             THEN callSetFlag(p, argument)
             ELSE IF Len(arg) > 2
                  THEN callSetValue(p, argument, substrFrom(arg, 2))
                  ELSE consumeNextAsValue(p, argument, arg)

\* ArgParser::parseShortOption on the token at the cursor.
parseShortOption(p) ==
    LET arg == p.args[p.it]
        shortName == substr(arg, 1, 1)
        argument == findArgument(p, shortName)
    IN  IF argument = nullptr THEN throw(p, "UnknownArgumentError", arg)
        ELSE IF p.m_arguments[argument].m_type = Flag
             THEN callSetFlag(p, argument)
             ELSE IF Len(arg) > 2
                  THEN callSetValue(p, argument, substrFrom(arg, 2))
                  ELSE consumeNextAsValue(p, argument, arg)

\* parseLongOption with the inline value starting at the '='.
parseLongOption_valueFromEq(p) ==
    LET arg == p.args[p.it]
        eqPos == find(arg, "=")
        longName == IF eqPos # npos THEN substr(arg, 2, eqPos - 2)
                    ELSE substrFrom(arg, 2)
        value == IF eqPos # npos THEN substrFrom(arg, eqPos) ELSE <<>>
        argument == findArgument(p, longName)
    IN  IF argument = nullptr THEN throw(p, "UnknownArgumentError", arg)
        ELSE IF p.m_arguments[argument].m_type = Flag
             THEN IF eqPos # npos THEN throw(p, "ParseError", arg)
                  ELSE callSetFlag(p, argument)
             ELSE IF eqPos # npos
                  THEN callSetValue(p, argument, value)
                  ELSE consumeNextAsValue(p, argument, arg)

\* ArgParser::parseLongOption on the token at the cursor.
parseLongOption(p) ==
    LET arg == p.args[p.it]
        eqPos == find(arg, "=")
        longName == IF eqPos # npos THEN substr(arg, 2, eqPos - 2)
                    ELSE substrFrom(arg, 2)
        value == IF eqPos # npos THEN substrFrom(arg, eqPos + 1) ELSE <<>>
        argument == findArgument(p, longName)
    IN  IF argument = nullptr THEN throw(p, "UnknownArgumentError", arg)
        ELSE IF p.m_arguments[argument].m_type = Flag
             THEN IF eqPos # npos THEN throw(p, "ParseError", arg)
                  ELSE callSetFlag(p, argument)
             ELSE IF eqPos # npos
                  THEN callSetValue(p, argument, value)
                  ELSE consumeNextAsValue(p, argument, arg)

HelpLong == <<"-", "-", "h", "e", "l", "p">>
HelpShort == <<"-", "h">>

isHelp(arg) == arg = HelpLong \/ arg = HelpShort
isLong(arg) == ~isHelp(arg) /\ starts_with(arg, <<"-", "-">>)
isShort(arg) ==
    ~isHelp(arg) /\ ~starts_with(arg, <<"-", "-">>)
    /\ starts_with(arg, <<"-">>) /\ Len(arg) > 1
isBare(arg) == ~isHelp(arg) /\ ~isLong(arg) /\ ~isShort(arg)

\* The help branch without the exit: the token is stepped over.
helpExit_returns(p) == [p EXCEPT !.it = @ + 1]

\* printHelp(); std::exit(0);
helpExit(p) == throw(p, "exit", <<>>)

\* m_positionalValues.push_back(arg); ++it;
pushPositional(p) ==
    [p EXCEPT !.m_positionalValues = Append(@, p.args[p.it]), !.it = @ + 1]

\* One iteration of the while loop of parsePositionalOption.
loopBody(p) ==
    LET arg == p.args[p.it]
    IN  IF isHelp(arg) THEN helpExit(p)
        ELSE IF isLong(arg) THEN parseLongOption(p)
        ELSE IF isShort(arg) THEN parseShortOption(p)
        ELSE pushPositional(p)

\* The while loop, to its end or to the first throw or exit.
RECURSIVE tokenLoop(_)
tokenLoop(p) ==
    IF p.thrown # "" \/ p.it > Len(p.args) THEN p ELSE tokenLoop(loopBody(p))

\* The binding loop of parsePositionalOption from Argument i on.
RECURSIVE bindFrom(_, _, _)
bindFrom(p, i, positionalIndex) ==
    IF i > Len(p.m_arguments) THEN p
    ELSE IF p.m_arguments[i].m_type = Positional
            /\ positionalIndex < Len(p.m_positionalValues)
         THEN LET value == p.m_positionalValues[positionalIndex + 1]
                  r == setValue(p.m_arguments[i], value)
                  q == [p EXCEPT !.m_arguments[i] = r.arg]
              IN  IF r.thrown # "" THEN throw(q, r.thrown, value)
                  ELSE bindFrom(q, i + 1, positionalIndex + 1)
         ELSE bindFrom(p, i + 1, positionalIndex)

bindPositionals(p) == bindFrom(p, 1, 0)

\* reportedName with the short name tried ahead of the long one.
reportedName_shortFirst(a) ==
    IF a.m_type = Positional THEN a.m_name
    ELSE IF a.m_shortName # <<>> THEN <<"-">> \o a.m_shortName
         ELSE <<"-", "-">> \o a.m_longName

\* The name validateRequiredArgument reports Argument a by.
reportedName(a) ==
    IF a.m_type = Positional THEN a.m_name
    ELSE IF a.m_longName # <<>> THEN <<"-", "-">> \o a.m_longName
         ELSE <<"-">> \o a.m_shortName

\* ArgParser::validateRequiredArgument
RECURSIVE validateFrom(_, _)
validateFrom(p, i) ==
    IF i > Len(p.m_arguments) THEN p
    ELSE IF p.m_arguments[i].m_isRequired /\ ~p.m_arguments[i].m_isSet
         THEN throw(p, "MissingArgumentError", reportedName(p.m_arguments[i]))
         ELSE validateFrom(p, i + 1)

validateRequiredArgument(p) == validateFrom(p, 1)

\* it = args.begin(), no exception in flight.
beginParse(p, args) == [p EXCEPT !.args = args, !.it = 1, !.thrown = "", !.what = <<>>]

\* ArgParser::parsePositionalOption(args) as one call on parser p.
parsePositionalOption(p, args) ==
    LET p1 == tokenLoop(beginParse(p, args))
        p2 == IF p1.thrown # "" THEN p1 ELSE bindPositionals(p1)
    IN  IF p2.thrown # "" THEN p2 ELSE validateRequiredArgument(p2)

\* ArgParser::get<T>(name), getBool(name), isSet(name)
parserGetBool(p, name) ==
    LET arg == findArgument(p, name)
    IN  IF arg # nullptr THEN p.m_arguments[arg].m_isSet ELSE FALSE

\* ArgParser::get<bool>(name)
parserGet_bool(p, name) ==
    LET arg == findArgument(p, name)
    IN  IF arg = nullptr THEN [has |-> FALSE, val |-> FALSE]
        ELSE get_bool(p.m_arguments[arg])

parserIsSet(p, name) ==
    LET arg == findArgument(p, name)
    IN  IF arg # nullptr THEN p.m_arguments[arg].m_isSet ELSE FALSE


\* --------------------------------------------------------- applications
\* The client programs the parser is driven by: the declaration statements
\* of each (in order) and the tokens its command lines are made of.

Decl(op, shortName, longName, name, dflt, isRequired, func) ==
    [op |-> op, shortName |-> shortName, longName |-> longName, name |-> name,
     dflt |-> dflt, isRequired |-> isRequired, func |-> func]

\* The basic example: a flag -v/--vb, an option -o/--out with a default
\* that is no number, a required positional.
BasicApp ==
    [decls |-> << Decl("addFlag", <<"v">>, <<"v", "b">>, <<>>, <<>>, FALSE, "none"),
                  Decl("addOption", <<"o">>, <<"o", "u", "t">>, <<>>, <<"a">>, FALSE, "none"),
                  Decl("addPositional", <<>>, <<>>, <<"i", "n">>, <<>>, TRUE, "none") >>,
     tokens |-> { <<"-", "-", "v", "b">>, <<"-", "-", "v", "b", "=", "7">>,
                  <<"-", "v">>, <<"-", "-", "o", "u", "t">>,
                  <<"-", "-", "o", "u", "t", "=", "7">>, <<"-", "o">>,
                  <<"-", "o", "7">>, <<"7">> }]

\* The advanced example: a flag, an option with a default and the port
\* validator, a required option, an optional positional; and a second
\* positional with the port validator.
AdvancedApp ==
    [decls |-> << Decl("addFlag", <<"d">>, <<"d", "b", "g">>, <<>>, <<>>, FALSE, "none"),
                  Decl("addOption", <<"p">>, <<"p", "o", "r", "t">>, <<>>, <<"8", "0">>, FALSE, "isPort"),
                  Decl("addOption", <<"c">>, <<"c", "f", "g">>, <<>>, <<>>, TRUE, "none"),
                  Decl("addPositional", <<>>, <<>>, <<"f">>, <<>>, FALSE, "none"),
                  Decl("addPositional", <<>>, <<>>, <<"n">>, <<>>, FALSE, "isPort") >>,
     tokens |-> { <<"-", "-", "p", "o", "r", "t">>,
                  <<"-", "-", "p", "o", "r", "t", "=", "x">>,
                  <<"-", "p">>, <<"-", "p", "7">>, <<"-", "c">>,
                  <<"x">>, <<"7">>, <<"-", "-", "h", "e", "l", "p">> }]

\* Two positionals declared around a flag and an option.
CopyApp ==
    [decls |-> << Decl("addPositional", <<>>, <<>>, <<"i", "n">>, <<>>, FALSE, "none"),
                  Decl("addFlag", <<"v">>, <<>>, <<>>, <<>>, FALSE, "none"),
                  Decl("addOption", <<"o">>, <<>>, <<>>, <<>>, FALSE, "none"),
                  Decl("addPositional", <<>>, <<>>, <<"t", "o">>, <<>>, FALSE, "none") >>,
     tokens |-> { <<"a">>, <<"b">>, <<"-">>, <<"-", "v">>, <<"-", "o">>,
                  <<"-", "-", "i", "n">>, <<"-", "-", "z", "z">>, <<"-", "h">> }]

\* A required option that takes h as its short name, a required flag
\* without a long name.
HostApp ==
    [decls |-> << Decl("addOption", <<"h">>, <<"h", "o", "s", "t">>, <<>>, <<>>, TRUE, "none"),
                  Decl("addFlag", <<"q">>, <<>>, <<>>, <<>>, TRUE, "none") >>,
     tokens |-> { <<"-", "h">>, <<"-", "h", "7">>, <<"-", "-", "h", "o", "s", "t">>,
                  <<"-", "-", "h", "o", "s", "t", "=", "7">>, <<"-", "q">>,
                  <<"-", "z">>, <<"7">>, <<>> }]

Apps == << BasicApp, AdvancedApp, CopyApp, HostApp >>

\* The command lines of application n: up to MaxArgs of its tokens.
Inputs(n) == UNION { [1..k -> Apps[n].tokens] : k \in 0..MaxArgs }

\* ---------------------------------------------------------------- state

VARIABLES
    app,                 \* which application runs
    m_arguments,         \* ArgParser::m_arguments
    m_argMap,            \* ArgParser::m_argMap
    m_positionalValues,  \* ArgParser::m_positionalValues
    args,                \* the vector parsePositionalOption was called with
    it,                  \* its cursor
    thrown,              \* "" | "exit" | the exception that left the call
    what,                \* the text the exception carries
    tokenAt,             \* the cursor at the latest test of the loop condition
    pc,                  \* where the application is
    ar                   \* a stand-alone Argument (ArgSpec)

vars == << app, m_arguments, m_argMap, m_positionalValues, args, it, thrown,
           what, tokenAt, pc, ar >>

Cur ==
    [m_arguments |-> m_arguments, m_argMap |-> m_argMap,
     m_positionalValues |-> m_positionalValues, args |-> args, it |-> it,
     thrown |-> thrown, what |-> what]

Install(q) ==
    /\ m_arguments' = q.m_arguments
    /\ m_argMap' = q.m_argMap
    /\ m_positionalValues' = q.m_positionalValues
    /\ args' = q.args
    /\ it' = q.it
    /\ thrown' = q.thrown
    /\ what' = q.what

\* ArgParser(programName, description): nothing declared, nothing parsed.
EmptyParser ==
    [m_arguments |-> <<>>, m_argMap |-> [k \in {} |-> nullptr],
     m_positionalValues |-> <<>>, args |-> <<>>, it |-> 1, thrown |-> "",
     what |-> <<>>]

NoArgument == FlagArgument(<<>>, <<>>)

Init ==
    /\ app \in DOMAIN Apps
    /\ m_arguments = EmptyParser.m_arguments
    /\ m_argMap = EmptyParser.m_argMap
    /\ m_positionalValues = EmptyParser.m_positionalValues
    /\ args = <<>>
    /\ it = 1
    /\ thrown = ""
    /\ what = <<>>
    /\ tokenAt = 0
    /\ pc = "declare"
    /\ ar = NoArgument

\* The declaration the application makes next.
NextDecl == Apps[app].decls[Len(m_arguments) + 1]

\* The calls chained on the reference an add-call returns.
chain(p, d) ==
    LET n == Len(p.m_arguments)
        a1 == IF d.isRequired /\ d.op # "addPositional"
              THEN required(p.m_arguments[n], TRUE) ELSE p.m_arguments[n]
        a2 == IF d.func # "none" THEN validator(a1, d.func) ELSE a1
    IN  [p EXCEPT !.m_arguments[n] = a2]

Declared(q) ==
    /\ Install(q)
    /\ pc' = IF Len(q.m_arguments) = Len(Apps[app].decls) THEN "idle" ELSE "declare"
    /\ UNCHANGED << app, tokenAt, ar >>

AddFlag ==
    /\ pc = "declare"
    /\ NextDecl.op = "addFlag"
    /\ Declared(chain(addFlag(Cur, NextDecl.shortName, NextDecl.longName), NextDecl))

AddOption ==
    /\ pc = "declare"
    /\ NextDecl.op = "addOption"
    /\ Declared(chain(addOption(Cur, NextDecl.shortName, NextDecl.longName,
                                NextDecl.dflt), NextDecl))

AddPositional ==
    /\ pc = "declare"
    /\ NextDecl.op = "addPositional"
    /\ Declared(chain(addPositional(Cur, NextDecl.name, NextDecl.isRequired), NextDecl))

\* parsePositionalOption(input) is entered.
StartParse ==
    /\ pc = "idle"
    /\ \E input \in Inputs(app) : Install(beginParse(Cur, input))
    /\ pc' = "loop"
    /\ UNCHANGED << app, tokenAt, ar >>

\* One loop iteration ended: in the loop still, or out of the call.
Iterated(q) ==
    /\ Install(q)
    /\ tokenAt' = it
    /\ pc' = IF q.thrown # "" THEN "done" ELSE "loop"
    /\ UNCHANGED << app, ar >>

AtToken == pc = "loop" /\ it <= Len(args)

\* The iteration by the branch of the loop body it takes.
HelpStep == AtToken /\ isHelp(args[it]) /\ Iterated(loopBody(Cur))

LongStep == AtToken /\ isLong(args[it]) /\ Iterated(loopBody(Cur))

ShortStep == AtToken /\ isShort(args[it]) /\ Iterated(loopBody(Cur))

BareStep == AtToken /\ isBare(args[it]) /\ Iterated(loopBody(Cur))

\* it == end: the binding loop.
Bind ==
    /\ pc = "loop"
    /\ it = Len(args) + 1
    /\ LET q == bindPositionals(Cur)
       IN  /\ Install(q)
           /\ pc' = IF q.thrown # "" THEN "done" ELSE "validate"
    /\ tokenAt' = it
    /\ UNCHANGED << app, ar >>

Validate ==
    /\ pc = "validate"
    /\ Install(validateRequiredArgument(Cur))
    /\ pc' = "done"
    /\ UNCHANGED << app, tokenAt, ar >>

Next ==
    \/ AddFlag
    \/ AddOption
    \/ AddPositional
    \/ StartParse
    \/ HelpStep
    \/ LongStep
    \/ ShortStep
    \/ BareStep
    \/ Bind
    \/ Validate

Spec == Init /\ [][Next]_vars


\* ------------------------------------------- a stand-alone Argument

Chars == {"7", "x", "-"}

\* Strings beyond the short ones: white space and sign before a number,
\* decimal points, the ends of the range of int, a boolean word.
ExtraStrings ==
    { <<" ", "7">>, <<"+", "7">>, <<"7", ".", "5", "0">>, <<".", "7">>,
      <<"7", ".">>, <<".">>, <<"7", ".", "x">>,
      <<"2", "1", "4", "7", "4", "8", "3", "6", "4", "7">>,
      <<"2", "1", "4", "7", "4", "8", "3", "6", "4", "8">>,
      <<"-", "2", "1", "4", "7", "4", "8", "3", "6", "4", "8">>,
      <<"O", "n">> }

Strings == UNION { [1..k -> Chars] : k \in 0..MaxStrLen } \cup ExtraStrings

ArgInit ==
    /\ app = 1
    /\ m_arguments = EmptyParser.m_arguments
    /\ m_argMap = EmptyParser.m_argMap
    /\ m_positionalValues = EmptyParser.m_positionalValues
    /\ args = <<>>
    /\ it = 1
    /\ thrown = ""
    /\ what = <<>>
    /\ tokenAt = 0
    /\ pc = "arg"
    /\ ar \in {FlagArgument(<<"v">>, <<>>), PositionalArgument(<<"i", "n">>, FALSE)}
              \cup {OptionArgument(<<"o">>, <<>>, d) : d \in Strings}

ArgFrame ==
    UNCHANGED << app, m_arguments, m_argMap, m_positionalValues, args, it, what,
                 tokenAt, pc >>

ArgSetValue ==
    /\ pc = "arg"
    /\ \E v \in Strings :
          LET r == setValue(ar, v) IN ar' = r.arg /\ thrown' = r.thrown
    /\ ArgFrame

ArgSetFlag ==
    /\ pc = "arg"
    /\ \E b \in BOOLEAN :
          LET r == setFlag(ar, b) IN ar' = r.arg /\ thrown' = r.thrown
    /\ ArgFrame

\* Defaults given as int: the README's port, a negative, the ends of int.
DefaultInts == {0, 8080, -7, INT_MAX, (0 - INT_MAX) - 1}

ArgDefaultValue ==
    /\ pc = "arg"
    /\ \/ \E v \in Strings : ar' = defaultValue(ar, v)
       \/ \E n \in DefaultInts : ar' = defaultValueInt(ar, n)
    /\ thrown' = ""
    /\ ArgFrame

ArgValidator ==
    /\ pc = "arg"
    /\ \E f \in {"none", "isPort"} : ar' = validator(ar, f)
    /\ thrown' = ""
    /\ ArgFrame

ArgNext ==
    \/ ArgSetValue
    \/ ArgSetFlag
    \/ ArgDefaultValue
    \/ ArgValidator

ArgSpec == ArgInit /\ [][ArgNext]_vars


\* ------------------------------------------------------------- claims
\* Shared vocabulary of the claims below.

Succeeded == pc = "done" /\ thrown = ""

TokenErrors == {"UnknownArgumentError", "ParseError", "ValidationError"}

\* The declared positionals, as indices into m_arguments, and the rank of
\* one among them (1 for the first declared).
PositionalIndices == {i \in DOMAIN m_arguments : m_arguments[i].m_type = Positional}

PositionalRank(i) == Cardinality({j \in PositionalIndices : j <= i})

\* The name an option token carries: after "--" up to "=", or the one
\* character after "-".
OptionTokenName(tok) ==
    IF starts_with(tok, <<"-", "-">>)
    THEN IF find(tok, "=") # npos THEN SubSeq(tok, 3, find(tok, "=")) ELSE SubSeq(tok, 3, Len(tok))
    ELSE SubSeq(tok, 2, 2)

IsOptionToken(tok) == Len(tok) > 1 /\ tok[1] = "-"

\* The token names, by the name kind of its prefix, a declared Option and
\* carries no value of its own, so that the token after it is its value.
TakesNextToken(tok) ==
    /\ IsOptionToken(tok)
    /\ IF starts_with(tok, <<"-", "-">>)
       THEN /\ find(tok, "=") = npos
            /\ \E i \in DOMAIN m_arguments :
                  /\ m_arguments[i].m_type = Option
                  /\ m_arguments[i].m_longName = OptionTokenName(tok)
       ELSE /\ Len(tok) = 2
            /\ \E i \in DOMAIN m_arguments :
                  /\ m_arguments[i].m_type = Option
                  /\ m_arguments[i].m_shortName = OptionTokenName(tok)

\* The positional tokens of a command line: those that are no option
\* token and no value of the option token before them.
RECURSIVE PositionalTokens(_, _)
PositionalTokens(tokens, i) ==
    IF i > Len(tokens) THEN <<>>
    ELSE IF IsOptionToken(tokens[i])
         THEN PositionalTokens(tokens, IF TakesNextToken(tokens[i]) THEN i + 2 ELSE i + 1)
         ELSE <<tokens[i]>> \o PositionalTokens(tokens, i + 1)

\* C1: after a successful parse on a fresh parser the Nth declared
\* positional holds the Nth positional token, declared positionals beyond
\* the positional tokens stay unset, and positionalArguments() is exactly
\* the positional tokens.
C1_PositionalsBoundByIndex ==
    Succeeded =>
        LET pos == PositionalTokens(args, 1)
        IN  /\ m_positionalValues = pos
            /\ \A i \in PositionalIndices :
                  IF PositionalRank(i) <= Len(pos)
                  THEN /\ m_arguments[i].m_isSet
                       /\ m_arguments[i].m_currentValue = pos[PositionalRank(i)]
                  ELSE ~m_arguments[i].m_isSet


\* An option token whose name is no key of the lookup map.
IsUnknownOptionToken(tok) ==
    /\ IsOptionToken(tok)
    /\ tok \notin {HelpLong, HelpShort}
    /\ OptionTokenName(tok) \notin DOMAIN m_argMap

\* C4 as stated: a command line that holds an unknown option token, at
\* whatever position, ends in UnknownArgumentError.
C4_UnknownAnywhereFails ==
    (pc = "done" /\ \E k \in DOMAIN args : IsUnknownOptionToken(args[k]))
        => thrown = "UnknownArgumentError"

\* C4, amended: when the loop comes to an unknown option token (no earlier
\* token ended the call and the token is not the value of the Option
\* before it), that iteration throws UnknownArgumentError carrying the
\* token and changes no Argument and no positional value; and once the call
\* has ended no further token is processed.
C4_UnknownAtCursorAborts ==
    [][ /\ (AtToken /\ IsUnknownOptionToken(args[it]))
            => /\ thrown' = "UnknownArgumentError"
               /\ what' = args[it]
               /\ pc' = "done"
               /\ m_arguments' = m_arguments
               /\ m_positionalValues' = m_positionalValues
        /\ pc = "done"
            => UNCHANGED << m_arguments, m_positionalValues, thrown, tokenAt >> ]_vars

\* An unknown option token between other tokens ended the call after an
\* earlier token had set an Argument.
C4_Witness ==
    /\ pc = "done"
    /\ thrown = "UnknownArgumentError"
    /\ 1 < tokenAt /\ tokenAt < Len(args)
    /\ IsUnknownOptionToken(args[tokenAt])
    /\ \E i \in DOMAIN m_arguments : m_arguments[i].m_isSet

\* The first Argument in declaration order that is required and not set
\* (0: there is none), and the name the claim reports one by.
FirstMissing ==
    LET missing == {i \in DOMAIN m_arguments :
                        m_arguments[i].m_isRequired /\ ~m_arguments[i].m_isSet}
    IN  IF missing = {} THEN 0
        ELSE CHOOSE i \in missing : \A j \in missing : i <= j

MissingName(a) ==
    CASE a.m_type = Positional -> a.m_name
      [] a.m_type # Positional /\ a.m_longName # <<>> -> <<"-", "-">> \o a.m_longName
      [] OTHER -> <<"-">> \o a.m_shortName

\* Every declared positional that a positional value is there for holds it.
BindingComplete ==
    \A i \in PositionalIndices :
        PositionalRank(i) <= Len(m_positionalValues)
            => /\ m_arguments[i].m_isSet
               /\ m_arguments[i].m_currentValue = m_positionalValues[PositionalRank(i)]

\* C5: MissingArgumentError comes only after the token pass and the
\* binding completed without error, and names the first required unset
\* Argument in declaration order; a parse that got that far with every
\* required Argument set succeeds; the required check runs only when no
\* token raised an error.
C5_MissingIsLastAndFirst ==
    /\ (pc = "done" /\ thrown = "MissingArgumentError")
         => /\ tokenAt = Len(args) + 1
            /\ BindingComplete
            /\ FirstMissing # 0
            /\ what = MissingName(m_arguments[FirstMissing])
    /\ Succeeded => (FirstMissing = 0 /\ tokenAt = Len(args) + 1 /\ BindingComplete)
    /\ (pc = "done" /\ thrown \in TokenErrors) => thrown # "MissingArgumentError"
    /\ pc = "validate" => (thrown = "" /\ tokenAt = Len(args) + 1 /\ BindingComplete)

\* Two required Arguments are unset and the one declared second has only a
\* short name: the first one is reported.
C5_Witness ==
    /\ pc = "done"
    /\ thrown = "MissingArgumentError"
    /\ Cardinality({i \in DOMAIN m_arguments :
                        m_arguments[i].m_isRequired /\ ~m_arguments[i].m_isSet}) = 2
    /\ Len(args) > 0

\* C6 as stated: a command line that holds -h or --help, at whatever
\* position, ends in the help outcome.
C6_HelpAnywhereExits ==
    (pc = "done" /\ \E k \in DOMAIN args : args[k] \in {HelpLong, HelpShort})
        => thrown = "exit"

\* C6, amended: when the loop comes to a token -h or --help (no earlier
\* token raised an error and the token is not the value of the Option
\* before it), that iteration prints help and exits with status 0, with no
\* error, whatever is declared under the names h and help; and the required
\* check never runs after it.
C6_HelpAtCursorExits ==
    [][ /\ (AtToken /\ args[it] \in {HelpLong, HelpShort})
            => /\ thrown' = "exit"
               /\ pc' = "done"
               /\ m_arguments' = m_arguments
        /\ thrown = "exit" => (pc = "done" /\ pc' = "done" /\ thrown' = "exit") ]_vars

\* Help was asked for after another token while a required Argument is
\* unset.
C6_Witness ==
    /\ pc = "done"
    /\ thrown = "exit"
    /\ tokenAt > 1
    /\ FirstMissing # 0

\* An option token names Argument a: by either of its names, under either
\* prefix.
Mentions(tok, a) ==
    /\ IsOptionToken(tok)
    /\ OptionTokenName(tok) \in ({a.m_shortName, a.m_longName} \ {<<>>})

\* C8: a Flag that no token of the parsed command line mentions is not set
\* and get<bool>() on it is a present result, false.
C8_UnmentionedFlagIsFalse ==
    (pc = "done" /\ thrown # "exit") =>
        \A i \in DOMAIN m_arguments :
            (/\ m_arguments[i].m_type = Flag
             /\ \A k \in DOMAIN args : ~Mentions(args[k], m_arguments[i]))
            => /\ ~m_arguments[i].m_isSet
               /\ get_bool(m_arguments[i]) = [has |-> TRUE, val |-> FALSE]

\* The parser as the application declared it, before any parse.
RECURSIVE declareFrom(_, _, _)
declareFrom(p, decls, k) ==
    IF k > Len(decls) THEN p
    ELSE LET d == decls[k]
             q == CASE d.op = "addFlag" -> addFlag(p, d.shortName, d.longName)
                    [] d.op = "addOption" -> addOption(p, d.shortName, d.longName, d.dflt)
                    [] OTHER -> addPositional(p, d.name, d.isRequired)
         IN  declareFrom(chain(q, d), decls, k + 1)

\* The Arguments and positional values the loop leaves after exactly the
\* first n tokens of the command line, on the parser as declared.
AfterTokens(n) ==
    tokenLoop(beginParse(declareFrom(EmptyParser, Apps[app].decls, 1),
                         SubSeq(args, 1, n)))

\* C10 as stated: a call that failed with UnknownArgumentError, ParseError
\* or ValidationError failed at some token k, and every Argument is as
\* processing exactly the tokens before k leaves it.
C10_FailureIsAtSomeToken ==
    (pc = "done" /\ thrown \in TokenErrors) =>
        \E k \in DOMAIN args : m_arguments = AfterTokens(k - 1).m_arguments

\* The declared positional whose value the binding loop rejected: the
\* first one, in declaration order, that a positional value is there for
\* and whose validator refuses it (0: none).
RejectedPositional ==
    LET bad == {i \in PositionalIndices :
                    /\ PositionalRank(i) <= Len(m_positionalValues)
                    /\ ~validate(m_arguments[i], m_positionalValues[PositionalRank(i)])}
    IN  IF bad = {} THEN 0 ELSE CHOOSE i \in bad : \A j \in bad : i <= j

\* C10, amended: when the loop fails at token k, every Argument (and the
\* positional values) is as processing exactly the tokens before k leaves
\* it: nothing set by an earlier token is rolled back, and the failing
\* token changes nothing.  A ValidationError from a positional's validator
\* is raised by the binding loop, after every token was processed: the
\* Arguments are then as the whole command line leaves them, with the
\* positionals declared before the rejected one bound and the rejected one
\* unchanged.
C10_FailureKeepsPrefixState ==
    /\ (pc = "done" /\ thrown \in TokenErrors /\ tokenAt <= Len(args)) =>
          LET before == AfterTokens(tokenAt - 1)
          IN  /\ before.thrown = ""
              /\ m_arguments = before.m_arguments
              /\ m_positionalValues = before.m_positionalValues
    /\ (pc = "done" /\ thrown \in TokenErrors /\ tokenAt = Len(args) + 1) =>
          LET whole == AfterTokens(Len(args))
              r == RejectedPositional
          IN  /\ thrown = "ValidationError"
              /\ whole.thrown = ""
              /\ m_positionalValues = whole.m_positionalValues
              /\ r # 0
              /\ what = m_positionalValues[PositionalRank(r)]
              /\ \A i \in DOMAIN m_arguments :
                    IF i \in PositionalIndices /\ i < r
                    THEN /\ m_arguments[i].m_isSet
                         /\ m_arguments[i].m_currentValue
                                = m_positionalValues[PositionalRank(i)]
                    ELSE m_arguments[i] = whole.m_arguments[i]

\* A value was rejected at the third token after an earlier token set an
\* Argument.
C10_Witness ==
    /\ pc = "done"
    /\ thrown = "ValidationError"
    /\ tokenAt = 3 /\ Len(args) = 3
    /\ \E i \in DOMAIN m_arguments : m_arguments[i].m_isSet


\* The value strings the two spellings of an option are compared on.
Values ==
    { <<>>, <<"7">>, <<"x">>, <<"-", "v">>, <<"-", "-", "h", "e", "l", "p">>,
      <<"a", "=", "b">> }

\* parsePositionalOption can be called: everything is declared, and the
\* process has not exited.
Callable == pc = "idle" \/ (pc = "done" /\ thrown # "exit")

\* Two calls ended the same way and left the same parser.
SameResult(r1, r2) ==
    /\ r1.thrown = r2.thrown
    /\ r1.what = r2.what
    /\ r1.m_arguments = r2.m_arguments
    /\ r1.m_positionalValues = r2.m_positionalValues
    /\ r1.m_argMap = r2.m_argMap

LongEquals(N, v) == << <<"-", "-">> \o N \o <<"=">> \o v >>
LongSpace(N, v) == << <<"-", "-">> \o N, v >>

\* C2 as stated: for every declared Option with long name N and every v,
\* --N=v and --N v end the same way in the same state, with the Option set
\* to v and all tokens consumed.
C2_LongFormsAgreeAlways ==
    pc = "done" =>
        \A i \in DOMAIN m_arguments : \A v \in Values :
            (/\ m_arguments[i].m_type = Option
             /\ m_arguments[i].m_longName # <<>>
             /\ args = LongEquals(m_arguments[i].m_longName, v)) =>
                LET r2 == parsePositionalOption(
                              declareFrom(EmptyParser, Apps[app].decls, 1),
                              LongSpace(m_arguments[i].m_longName, v))
                IN  /\ SameResult(Cur, r2)
                    /\ m_arguments[i].m_isSet
                    /\ m_arguments[i].m_currentValue = v
                    /\ it = 2 /\ r2.it = 3

\* C2, amended: for every declared Option whose long name N is the key the
\* lookup resolves to it (N is not help and holds no '='), and every v,
\* --N=v and --N v end the same way in the same state; when the Option's
\* validator (if any) accepts v, the Option is set to v and all tokens are
\* consumed, and when it rejects v both calls end in ValidationError with
\* the Option as it was.
C2_LongFormsAgree ==
    Callable =>
        \A i \in DOMAIN m_arguments : \A v \in Values :
            (/\ m_arguments[i].m_type = Option
             /\ m_arguments[i].m_longName # <<>>
             /\ m_arguments[i].m_longName # <<"h", "e", "l", "p">>
             /\ find(m_arguments[i].m_longName, "=") = npos
             /\ findArgument(Cur, m_arguments[i].m_longName) = i) =>
                LET N == m_arguments[i].m_longName
                    r1 == parsePositionalOption(Cur, LongEquals(N, v))
                    r2 == parsePositionalOption(Cur, LongSpace(N, v))
                IN  /\ SameResult(r1, r2)
                    /\ IF validate(m_arguments[i], v)
                       THEN /\ r1.m_arguments[i].m_isSet
                            /\ r1.m_arguments[i].m_currentValue = v
                            /\ r1.it = 2 /\ r2.it = 3
                       ELSE /\ r1.thrown = "ValidationError"
                            /\ r1.m_arguments[i] = m_arguments[i]

\* The application was called with --out=7 and the option holds 7.
C2_Witness ==
    /\ pc = "done"
    /\ args = << <<"-", "-", "o", "u", "t", "=", "7">> >>
    /\ \E i \in DOMAIN m_arguments :
          /\ m_arguments[i].m_longName = <<"o", "u", "t">>
          /\ m_arguments[i].m_isSet
          /\ m_arguments[i].m_currentValue = <<"7">>

ShortAttached(c, v) == << <<"-">> \o c \o v >>
ShortSpace(c, v) == << <<"-">> \o c, v >>

\* C3 as stated: for every declared Option with a one-character short name
\* c and every non-empty v, -cv and -c v end the same way in the same
\* state, with the Option set to v.
C3_ShortFormsAgreeAlways ==
    pc = "done" =>
        \A i \in DOMAIN m_arguments : \A v \in Values \ {<<>>} :
            (/\ m_arguments[i].m_type = Option
             /\ Len(m_arguments[i].m_shortName) = 1
             /\ args = ShortAttached(m_arguments[i].m_shortName, v)) =>
                LET r2 == parsePositionalOption(
                              declareFrom(EmptyParser, Apps[app].decls, 1),
                              ShortSpace(m_arguments[i].m_shortName, v))
                IN  /\ SameResult(Cur, r2)
                    /\ m_arguments[i].m_isSet
                    /\ m_arguments[i].m_currentValue = v

\* C3, amended: for every declared Option whose one-character short name c
\* is the key the lookup resolves to it, c being neither h nor '-', and
\* every non-empty v, -cv and -c v end the same way in the same state;
\* when the Option's validator (if any) accepts v the Option is set to v,
\* and when it rejects v both calls end in ValidationError with the Option
\* as it was.
C3_ShortFormsAgree ==
    Callable =>
        \A i \in DOMAIN m_arguments : \A v \in Values \ {<<>>} :
            (/\ m_arguments[i].m_type = Option
             /\ Len(m_arguments[i].m_shortName) = 1
             /\ m_arguments[i].m_shortName \notin {<<"h">>, <<"-">>}
             /\ findArgument(Cur, m_arguments[i].m_shortName) = i) =>
                LET c == m_arguments[i].m_shortName
                    r1 == parsePositionalOption(Cur, ShortAttached(c, v))
                    r2 == parsePositionalOption(Cur, ShortSpace(c, v))
                IN  /\ SameResult(r1, r2)
                    /\ IF validate(m_arguments[i], v)
                       THEN /\ r1.m_arguments[i].m_isSet
                            /\ r1.m_arguments[i].m_currentValue = v
                            /\ r1.it = 2 /\ r2.it = 3
                       ELSE /\ r1.thrown = "ValidationError"
                            /\ r1.m_arguments[i] = m_arguments[i]

\* The application was called with -o7 and the option holds 7.
C3_Witness ==
    /\ pc = "done"
    /\ args = << <<"-", "o", "7">> >>
    /\ \E i \in DOMAIN m_arguments :
          /\ m_arguments[i].m_shortName = <<"o">>
          /\ m_arguments[i].m_isSet
          /\ m_arguments[i].m_currentValue = <<"7">>


\* ------------------------------------- claims on a stand-alone Argument

IsDigitString(ds) == ds # <<>> /\ \A k \in DOMAIN ds : ds[k] \in Digits

\* a <= b for digit strings of one length.
RECURSIVE DigitsLeq(_, _)
DigitsLeq(a, b) ==
    IF a = <<>> THEN TRUE
    ELSE IF DigitVal(Head(a)) # DigitVal(Head(b)) THEN DigitVal(Head(a)) < DigitVal(Head(b))
    ELSE DigitsLeq(Tail(a), Tail(b))

\* s is the decimal numeral of an int: an optional '-', digits without a
\* leading zero, within the range of int.
IsIntNumeral(s) ==
    LET neg == s # <<>> /\ Head(s) = "-"
        ds == IF neg THEN Tail(s) ELSE s
        top == IF neg THEN Tail(to_string((0 - INT_MAX) - 1)) ELSE to_string(INT_MAX)
    IN  /\ IsDigitString(ds)
        /\ (Len(ds) > 1 => Head(ds) # "0")
        /\ ~(neg /\ ds = <<"0">>)
        /\ Len(ds) < Len(top) \/ (Len(ds) = Len(top) /\ DigitsLeq(ds, top))

\* s is a decimal numeral with an optional fraction: an optional '-',
\* digits, and possibly '.' and more digits.
IsDecimalNumeral(s) ==
    LET neg == s # <<>> /\ Head(s) = "-"
        ds == IF neg THEN Tail(s) ELSE s
        dot == find(ds, ".")
    IN  IF dot = npos THEN IsDigitString(ds)
        ELSE IsDigitString(SubSeq(ds, 1, dot)) /\ IsDigitString(SubSeq(ds, dot + 2, Len(ds)))

\* The value a decimal numeral denotes.
DecimalNumeralValue(s) ==
    LET neg == Head(s) = "-"
        ds == IF neg THEN Tail(s) ELSE s
        dot == find(ds, ".")
    IN  IF dot = npos THEN decimal(neg, ds, <<>>)
        ELSE decimal(neg, SubSeq(ds, 1, dot), SubSeq(ds, dot + 2, Len(ds)))

UnsetOptionWithDefault ==
    ar.m_type = Option /\ ~ar.m_isSet /\ ar.m_defaultValue # <<>>

\* C7 as stated: an Option with a default that was never set gives a
\* present result for string, int and double alike.
C7_DefaultAlwaysPresent ==
    UnsetOptionWithDefault =>
        /\ get_string(ar) = [has |-> TRUE, val |-> ar.m_defaultValue]
        /\ get_int(ar).has
        /\ get_double(ar).has

\* C7, amended: an Option with a default that was never set gives the
\* default itself as string; the int the default is the numeral of, when
\* it is the numeral of an int; the number it denotes as double, when it is
\* a decimal numeral; whatever validator is attached.
C7_DefaultRetrieved ==
    UnsetOptionWithDefault =>
        /\ get_string(ar) = [has |-> TRUE, val |-> ar.m_defaultValue]
        /\ getString(ar) = ar.m_defaultValue
        /\ IsIntNumeral(ar.m_defaultValue)
              => /\ get_int(ar).has
                 /\ to_string(get_int(ar).val) = ar.m_defaultValue
        /\ IsDecimalNumeral(ar.m_defaultValue)
              => get_double(ar) = [has |-> TRUE,
                                   val |-> DecimalNumeralValue(ar.m_defaultValue)]
        /\ get_int(ar) = get_int(validator(ar, "none"))
        /\ get_double(ar) = get_double(validator(ar, "none"))

\* An unset Option whose default, -7, its port validator would refuse:
\* get<int>() is -7.
C7_Witness ==
    /\ UnsetOptionWithDefault
    /\ ar.m_defaultValue = to_string(-7)
    /\ ar.m_validator = "isPort"
    /\ get_int(ar) = [has |-> TRUE, val |-> -7]

\* s is numeric, read generously: white space, an optional sign, digits
\* with at most one decimal point among them, and nothing else.
IsNumericString(s) ==
    \E k \in DOMAIN s :
        /\ \A j \in 1..(k - 1) : s[j] = " " \/ (j = k - 1 /\ s[j] \in {"+", "-"})
        /\ \A j \in k..Len(s) : s[j] \in Digits \cup {"."}
        /\ \E j \in k..Len(s) : s[j] \in Digits
        /\ Cardinality({j \in k..Len(s) : s[j] = "."}) <= 1

\* s begins, after white space and an optional sign, with a digit.
LeadsWithInteger(s) ==
    \E k \in DOMAIN s :
        /\ \A j \in 1..(k - 1) : s[j] = " "
        /\ \/ s[k] \in Digits
           \/ s[k] \in {"+", "-"} /\ k < Len(s) /\ s[k + 1] \in Digits

\* C9 as stated: whenever the active string is not numeric, get<int>() is
\* absent and getInt() raises ValidationError.
C9_NonNumericIsAbsent ==
    ~IsNumericString(activeValue(ar))
        => (~get_int(ar).has /\ getInt(ar).thrown = "ValidationError")

\* C9, amended: when the active string does not begin, after white space
\* and an optional sign, with a digit (or there is no active string),
\* get<int>() is absent and getInt() raises ValidationError; a string that
\* begins with a number in the range of int is read as that number,
\* whatever follows it; getInt() raises exactly when get<int>() is absent
\* and otherwise returns the same integer.
C9_AbsentIffGetIntRaises ==
    /\ (noValue(ar) \/ ~LeadsWithInteger(activeValue(ar)))
          => (~get_int(ar).has /\ getInt(ar).thrown = "ValidationError")
    /\ (~noValue(ar) /\ \E n \in 1..Len(activeValue(ar)) :
                            /\ IsIntNumeral(SubSeq(activeValue(ar), 1, n))
                            /\ (n < Len(activeValue(ar))
                                   => activeValue(ar)[n + 1] \notin Digits))
          => get_int(ar).has
    /\ getInt(ar).thrown = "ValidationError" <=> ~get_int(ar).has
    /\ get_int(ar).has => getInt(ar) = [thrown |-> "", val |-> get_int(ar).val]

\* An Argument set to x: get<int>() is absent and getInt() raises.
C9_Witness ==
    /\ ar.m_isSet
    /\ ar.m_currentValue = <<"x">>
    /\ ~get_int(ar).has
    /\ getInt(ar).thrown = "ValidationError"


\* ------------------------------------------------- registry on its own
\* Any sequence of addFlag / addOption / addPositional calls, with names
\* drawn from a set small enough that keys are reused.

KeyNames == { <<"a">>, <<"b">> }

RegistryInit ==
    /\ app = 1
    /\ m_arguments = EmptyParser.m_arguments
    /\ m_argMap = EmptyParser.m_argMap
    /\ m_positionalValues = EmptyParser.m_positionalValues
    /\ args = <<>>
    /\ it = 1
    /\ thrown = ""
    /\ what = <<>>
    /\ tokenAt = 0
    /\ pc = "registry"
    /\ ar = NoArgument

RegistryFrame == UNCHANGED << app, tokenAt, pc, ar >>

RegistryAddFlag ==
    /\ pc = "registry" /\ Len(m_arguments) < MaxDecls
    /\ \E shortName \in KeyNames \cup {<<>>}, longName \in KeyNames \cup {<<>>} :
          Install(addFlag(Cur, shortName, longName))
    /\ RegistryFrame

RegistryAddOption ==
    /\ pc = "registry" /\ Len(m_arguments) < MaxDecls
    /\ \E shortName \in KeyNames \cup {<<>>}, longName \in KeyNames \cup {<<>>} :
          Install(addOption(Cur, shortName, longName, <<>>))
    /\ RegistryFrame

RegistryAddPositional ==
    /\ pc = "registry" /\ Len(m_arguments) < MaxDecls
    /\ \E name \in KeyNames : Install(addPositional(Cur, name, FALSE))
    /\ RegistryFrame

RegistryNext ==
    \/ RegistryAddFlag
    \/ RegistryAddOption
    \/ RegistryAddPositional

RegistrySpec == RegistryInit /\ [][RegistryNext]_vars

\* The keys an Argument was declared under.
KeysOf(a) == {a.m_shortName, a.m_longName, a.m_name} \ {<<>>}

\* No key of the lookup map resolves to Argument i.
Unreachable(i) == \A k \in DOMAIN m_argMap : findArgument(Cur, k) # i

\* C11 as stated: when a later declaration reuses a key of an earlier
\* Argument, the key resolves to the later one and no key at all resolves
\* to the earlier one.
C11_ReusedKeyHidesEarlier ==
    \A i \in DOMAIN m_arguments : \A j \in DOMAIN m_arguments :
        \A k \in KeysOf(m_arguments[i]) \cap KeysOf(m_arguments[j]) :
            i < j => /\ findArgument(Cur, k) >= j
                     /\ Unreachable(i)

\* C11, amended: every key resolves to the Argument declared last under
\* it, so a reused key no longer resolves to the earlier Argument; the
\* earlier Argument stays in the declaration-order list, still resolved by
\* each of its keys that no later declaration reused, and is unreachable by
\* name exactly when every one of its keys was reused (or it has none).
C11_KeyResolvesToLatest ==
    /\ DOMAIN m_argMap = UNION { KeysOf(m_arguments[i]) : i \in DOMAIN m_arguments }
    /\ \A k \in DOMAIN m_argMap :
          /\ findArgument(Cur, k) \in DOMAIN m_arguments
          /\ k \in KeysOf(m_arguments[findArgument(Cur, k)])
          /\ \A j \in DOMAIN m_arguments :
                k \in KeysOf(m_arguments[j]) => j <= findArgument(Cur, k)
    /\ \A i \in DOMAIN m_arguments :
          Unreachable(i) <=>
              \A k \in KeysOf(m_arguments[i]) :
                  \E j \in DOMAIN m_arguments : j > i /\ k \in KeysOf(m_arguments[j])

\* A Flag declared as a/b, then an Option that reuses a only: a resolves
\* to the Option and b still resolves to the Flag.
C11_Witness ==
    /\ Len(m_arguments) = 2
    /\ m_arguments[1].m_type = Flag /\ KeysOf(m_arguments[1]) = KeyNames
    /\ m_arguments[2].m_type = Option /\ KeysOf(m_arguments[2]) = {<<"a">>}
    /\ findArgument(Cur, <<"a">>) = 2
    /\ findArgument(Cur, <<"b">>) = 1


\* --------------------------------------------- claims on option lookup

\* The Flags and Options an option token names by the name kind of its
\* prefix: by long name after "--", by short name after "-".
NamedByPrefix(tok) ==
    {i \in DOMAIN m_arguments :
        /\ m_arguments[i].m_type \in {Flag, Option}
        /\ OptionTokenName(tok) # <<>>
        /\ IF starts_with(tok, <<"-", "-">>)
           THEN m_arguments[i].m_longName = OptionTokenName(tok)
           ELSE m_arguments[i].m_shortName = OptionTokenName(tok)}

\* C12: an option token at the cursor binds only to a Flag or Option that
\* has its name as the name kind of its prefix; when there is none the
\* iteration ends in UnknownArgumentError carrying the token, even if the
\* name is a name of the other kind or the name of a positional.
C12_PrefixDecidesNameKind ==
    (AtToken /\ (isLong(args[it]) \/ isShort(args[it]))) =>
        LET r == loopBody(Cur)
        IN  IF NamedByPrefix(args[it]) = {}
            THEN r.thrown = "UnknownArgumentError" /\ r.what = args[it]
            ELSE /\ r.thrown # "UnknownArgumentError"
                 /\ \A i \in DOMAIN m_arguments :
                       r.m_arguments[i] # m_arguments[i] => i \in NamedByPrefix(args[it])


\* ---------------------------------------- claims on value consumption

\* The token is an option token that carries no value of its own: a long
\* one without '=', or a short one of two characters.
CarriesNoValue(tok) ==
    \/ isLong(tok) /\ find(tok, "=") = npos
    \/ isShort(tok) /\ Len(tok) = 2

\* The Argument the lookup resolves the token's name to (nullptr: none).
Resolved(tok) == findArgument(Cur, OptionTokenName(tok))

ValuelessOptionAtCursor ==
    /\ AtToken
    /\ CarriesNoValue(args[it])
    /\ Resolved(args[it]) # nullptr
    /\ m_arguments[Resolved(args[it])].m_type = Option

FlagWithInlineValueAtCursor ==
    /\ AtToken
    /\ isLong(args[it]) /\ find(args[it], "=") # npos
    /\ Resolved(args[it]) # nullptr
    /\ m_arguments[Resolved(args[it])].m_type = Flag

\* C13 as stated: an Option token without a value of its own takes the
\* next token as its value, whatever that token is, and the cursor moves by
\* two; as the last token it fails with ParseError and the Option is
\* unchanged; a long Flag token with an inline value fails with ParseError
\* and does not set the Flag.
C13_NextTokenIsTheValue ==
    /\ ValuelessOptionAtCursor =>
          LET i == Resolved(args[it])
              r == loopBody(Cur)
          IN  IF it < Len(args)
              THEN /\ r.thrown = ""
                   /\ r.it = it + 2
                   /\ r.m_arguments[i].m_isSet
                   /\ r.m_arguments[i].m_currentValue = args[it + 1]
              ELSE /\ r.thrown = "ParseError"
                   /\ r.m_arguments = m_arguments
    /\ FlagWithInlineValueAtCursor =>
          LET r == loopBody(Cur)
          IN  r.thrown = "ParseError" /\ r.m_arguments = m_arguments

\* C13, amended: an Option token (other than -h and --help) without a
\* value of its own hands the next token, whatever it looks like, to the
\* Option: when the Option's validator (if any) accepts it, it is stored
\* verbatim and the cursor moves by two, never past the end; when the
\* validator rejects it the parse fails with ValidationError and the
\* Option is unchanged.  As the last token it fails with ParseError
\* carrying the token and the Option is unchanged.  A long Flag token with
\* an inline value fails with ParseError and leaves the Flag as it was.
C13_NextTokenIsOfferedAsValue ==
    /\ ValuelessOptionAtCursor =>
          LET i == Resolved(args[it])
              r == loopBody(Cur)
          IN  /\ r.it <= Len(args) + 1
              /\ r.m_positionalValues = m_positionalValues
              /\ \A j \in DOMAIN m_arguments : j # i => r.m_arguments[j] = m_arguments[j]
              /\ IF it = Len(args)
                 THEN /\ r.thrown = "ParseError" /\ r.what = args[it]
                      /\ r.m_arguments = m_arguments
                 ELSE IF validate(m_arguments[i], args[it + 1])
                 THEN /\ r.thrown = ""
                      /\ r.it = it + 2
                      /\ r.m_arguments[i].m_isSet
                      /\ r.m_arguments[i].m_currentValue = args[it + 1]
                 ELSE /\ r.thrown = "ValidationError"
                      /\ r.m_arguments = m_arguments
    /\ FlagWithInlineValueAtCursor =>
          LET r == loopBody(Cur)
          IN  /\ r.thrown = "ParseError" /\ r.what = args[it]
              /\ r.m_arguments = m_arguments
              /\ r.m_positionalValues = m_positionalValues

\* A parse that succeeded in which --out took the option token --vb as its
\* value: the Option holds --vb and the Flag vb is not set.
C13_Witness ==
    /\ Succeeded
    /\ Len(args) = 3
    /\ args[1] = <<"-", "-", "o", "u", "t">>
    /\ args[2] = <<"-", "-", "v", "b">>
    /\ \E i \in DOMAIN m_arguments :
          /\ m_arguments[i].m_longName = <<"o", "u", "t">>
          /\ m_arguments[i].m_currentValue = <<"-", "-", "v", "b">>
    /\ \A i \in DOMAIN m_arguments : m_arguments[i].m_type = Flag => ~m_arguments[i].m_isSet


\* ------------------------------------------------ claims on getBool

\* The names getBool is asked for: every key of the lookup map and one
\* that is none.
AskedNames == (DOMAIN m_argMap) \cup { <<"n", "o", "n", "e">> }

\* C14: in every parser state the application can observe (between calls,
\* the process not exited) and for every name,
\* ArgParser::getBool(name) is get<bool>(name) when that is present (for an
\* Option, whether the active string is one of true/1/yes/on, whatever the
\* case of its letters) and false when it is absent or the name unknown.
C14_GetBoolWrapsTypedRetrieval ==
    (pc \in {"declare", "idle", "done"} /\ thrown # "exit") =>
        \A name \in AskedNames :
            LET typed == parserGet_bool(Cur, name)
                arg == findArgument(Cur, name)
            IN  /\ parserGetBool(Cur, name) = (IF typed.has THEN typed.val ELSE FALSE)
                /\ (arg # nullptr /\ m_arguments[arg].m_type = Option /\ typed.has)
                      => (typed.val <=>
                              lowerString(activeValue(m_arguments[arg])) \in TrueWords)


\* --------------------------------------------- one parser, many calls
\* The application declares its Arguments and then calls
\* parsePositionalOption any number of times on the same parser, catching
\* what a call throws.

CallInputs(n) == UNION { [1..k -> Apps[n].tokens] : k \in 0..MaxCallLen }

ReparseInit ==
    /\ app \in DOMAIN Apps
    /\ LET p == declareFrom(EmptyParser, Apps[app].decls, 1)
       IN  /\ m_arguments = p.m_arguments
           /\ m_argMap = p.m_argMap
           /\ m_positionalValues = p.m_positionalValues
    /\ args = <<>>
    /\ it = 1
    /\ thrown = ""
    /\ what = <<>>
    /\ tokenAt = 0
    /\ pc = "idle"
    /\ ar = NoArgument

\* A call of parsePositionalOption on the parser as earlier calls left it.
CallAgain ==
    /\ pc \in {"idle", "done"}
    /\ thrown # "exit"
    /\ Len(m_positionalValues) <= MaxKept
    /\ \E input \in CallInputs(app) : Install(beginParse(Cur, input))
    /\ pc' = "loop"
    /\ UNCHANGED << app, tokenAt, ar >>

ReparseNext ==
    \/ CallAgain
    \/ HelpStep
    \/ LongStep
    \/ ShortStep
    \/ BareStep
    \/ Bind
    \/ Validate

ReparseSpec == ReparseInit /\ [][ReparseNext]_vars

\* C15: after any sequence of calls the result of the last one - how it
\* ended, positionalArguments(), and every Argument's isSet and stored
\* value - is what the same command line gives on the parser as declared.
C15_LastCallAlone ==
    (pc = "done" /\ thrown # "exit") =>
        LET fresh == parsePositionalOption(
                         declareFrom(EmptyParser, Apps[app].decls, 1), args)
        IN  /\ thrown = fresh.thrown
            /\ m_positionalValues = fresh.m_positionalValues
            /\ m_arguments = fresh.m_arguments


====
